---------------------------- MODULE Spec2Model ----------------------------
(***************************************************************************)
(* Model of bindings/nodejs/lib/types/models/transaction-failure-reason.ts:*)
(* the numeric enum TransactionFailureReason and the exported object       *)
(* TRANSACTION_FAILURE_REASON_STRINGS that maps each member to its text.   *)
(* The file defines no functions; the operations on the two exports are    *)
(* the ones the language gives a caller: property read (describe), the     *)
(* `in` test (isKnown), enumeration of the members (allCodes), property    *)
(* assignment and delete.                                                  *)
(***************************************************************************)
EXTENDS Integers, Sequences, FiniteSets, TLC

VARIABLES table, last

vars == <<table, last>>

(* Number of callers that hold a reference to the exported objects. *)
NumReaders == 2

(***************************************************************************)
(* enum TransactionFailureReason: the members with their initializers.    *)
(***************************************************************************)
InputUTXOAlreadySpent == 1
ConflictingWithAnotherTx == 2
InvalidReferencedUtxo == 3
InvalidTransaction == 4
SumInputsOutputsAmountMismatch == 5
InvalidUnlockBlockSignature == 6
TimelockNotExpired == 7
InvalidNativeTokens == 8
StorageDepositReturnUnfulfilled == 9
InvalidInputUnlock == 10
SenderNotUnlocked == 11
InvalidChainStateTransition == 12
InvalidTransactionIssuingTime == 13
InvalidManaAmount == 14
InvalidBlockIssuanceCreditsAmount == 15
InvalidRewardContextInput == 16
InvalidCommitmentContextInput == 17
MissingStakingFeature == 18
FailedToClaimStakingReward == 19
FailedToClaimDelegationReward == 20
TransactionCapabilityNativeTokenBurningNotAllowed == 21
TransactionCapabilityManaBurningNotAllowed == 22
TransactionCapabilityAccountDestructionNotAllowed == 23
TransactionCapabilityAnchorDestructionNotAllowed == 24
TransactionCapabilityFoundryDestructionNotAllowed == 25
TransactionCapabilityNftDestructionNotAllowed == 26
SemanticValidationFailed == 255

(* Plausible slips in the enum: the first initializer dropped (members     *)
(* count from 0), the sentinel numbered as the next member, a member       *)
(* given the value of its neighbour.                                       *)
EnumZeroBased ==
    [i \in 1..27 |-> IF i = 27 THEN 255 ELSE i - 1]

EnumSentinelRenumbered ==
    [i \in 1..27 |-> i]

EnumValueRepeated ==
    [i \in 1..27 |-> IF i = 27 THEN 255 ELSE IF i = 26 THEN 25 ELSE i]

(* The members' values in declaration order. *)
TransactionFailureReason ==
    << InputUTXOAlreadySpent,
       ConflictingWithAnotherTx,
       InvalidReferencedUtxo,
       InvalidTransaction,
       SumInputsOutputsAmountMismatch,
       InvalidUnlockBlockSignature,
       TimelockNotExpired,
       InvalidNativeTokens,
       StorageDepositReturnUnfulfilled,
       InvalidInputUnlock,
       SenderNotUnlocked,
       InvalidChainStateTransition,
       InvalidTransactionIssuingTime,
       InvalidManaAmount,
       InvalidBlockIssuanceCreditsAmount,
       InvalidRewardContextInput,
       InvalidCommitmentContextInput,
       MissingStakingFeature,
       FailedToClaimStakingReward,
       FailedToClaimDelegationReward,
       TransactionCapabilityNativeTokenBurningNotAllowed,
       TransactionCapabilityManaBurningNotAllowed,
       TransactionCapabilityAccountDestructionNotAllowed,
       TransactionCapabilityAnchorDestructionNotAllowed,
       TransactionCapabilityFoundryDestructionNotAllowed,
       TransactionCapabilityNftDestructionNotAllowed,
       SemanticValidationFailed >>

(* The properties of the object literal, in source order: <<computed key, text>>. *)
StringsLiteral ==
    << <<InputUTXOAlreadySpent,
          "The referenced UTXO was already spent.">>,
       <<ConflictingWithAnotherTx,
          "The transaction is conflicting with another transaction. Conflicting specifically means a double spend situation that both transactions pass all validation rules, eventually losing one(s) should have this reason.">>,
       <<InvalidReferencedUtxo,
          "The referenced UTXO is invalid.">>,
       <<InvalidTransaction,
          "The transaction is invalid.">>,
       <<SumInputsOutputsAmountMismatch,
          "The sum of the inputs and output base token amount does not match.">>,
       <<InvalidUnlockBlockSignature,
          "The unlock block signature is invalid.">>,
       <<TimelockNotExpired,
          "The configured timelock is not yet expired.">>,
       <<InvalidNativeTokens,
          "The given native tokens are invalid.">>,
       <<StorageDepositReturnUnfulfilled,
          "The return amount in a transaction is not fulfilled by the output side.">>,
       <<InvalidInputUnlock,
          "An input unlock was invalid.">>,
       <<SenderNotUnlocked,
          "The output contains a Sender with an ident (address) which is not unlocked.">>,
       <<InvalidChainStateTransition,
          "The chain state transition is invalid.">>,
       <<InvalidTransactionIssuingTime,
          "The referenced input is created after transaction issuing time.">>,
       <<InvalidManaAmount,
          "The mana amount is invalid.">>,
       <<InvalidBlockIssuanceCreditsAmount,
          "The Block Issuance Credits amount is invalid.">>,
       <<InvalidRewardContextInput,
          "Reward Context Input is invalid.">>,
       <<InvalidCommitmentContextInput,
          "Commitment Context Input is invalid.">>,
       <<MissingStakingFeature,
          "Staking Feature is not provided in account output when claiming rewards.">>,
       <<FailedToClaimStakingReward,
          "Failed to claim staking reward.">>,
       <<FailedToClaimDelegationReward,
          "Failed to claim delegation reward.">>,
       <<TransactionCapabilityNativeTokenBurningNotAllowed,
          "Burning of native tokens is not allowed in the transaction capabilities.">>,
       <<TransactionCapabilityManaBurningNotAllowed,
          "Burning of mana is not allowed in the transaction capabilities.">>,
       <<TransactionCapabilityAccountDestructionNotAllowed,
          "Destruction of accounts is not allowed in the transaction capabilities.">>,
       <<TransactionCapabilityAnchorDestructionNotAllowed,
          "Destruction of anchors is not allowed in the transaction capabilities.">>,
       <<TransactionCapabilityFoundryDestructionNotAllowed,
          "Destruction of foundries is not allowed in the transaction capabilities.">>,
       <<TransactionCapabilityNftDestructionNotAllowed,
          "Destruction of nfts is not allowed in the transaction capabilities.">>,
       <<SemanticValidationFailed,
          "The semantic validation failed for a reason not covered by the previous variants.">> >>

(***************************************************************************)
(* Language semantics of the two exports.                                  *)
(***************************************************************************)

(* An object literal evaluates its properties in order; a key written     *)
(* twice keeps the value written last.                                     *)
ObjectLiteral(props) ==
    LET keys == {props[i][1] : i \in DOMAIN props}
        lastOf(k) == CHOOSE i \in DOMAIN props :
                        /\ props[i][1] = k
                        /\ \A j \in DOMAIN props : props[j][1] = k => j <= i
    IN  [k \in keys |-> props[lastOf(k)][2]]

(* Plausible slips in the literal: a member left out, a member keyed       *)
(* twice, a text pasted from the neighbouring member, an edited text, a    *)
(* property for a number that is no member.                                *)
StringsMissingMember ==
    ObjectLiteral(SubSeq(StringsLiteral, 1, 25) \o SubSeq(StringsLiteral, 27, 27))

StringsPastedText ==
    ObjectLiteral([i \in DOMAIN StringsLiteral |->
        IF i = 25 THEN <<StringsLiteral[25][1], StringsLiteral[24][2]>>
                  ELSE StringsLiteral[i]])

StringsEditedText ==
    ObjectLiteral([i \in DOMAIN StringsLiteral |->
        IF i = 9 THEN <<StringsLiteral[9][1],
                        "The return amount in a transaction is not fulfilled by the output side">>
                 ELSE StringsLiteral[i]])

StringsExtraKey ==
    ObjectLiteral(Append(StringsLiteral, <<27, "Reserved.">>))

StringsSentinelDropped ==
    ObjectLiteral(SubSeq(StringsLiteral, 1, 26))

(* export const TRANSACTION_FAILURE_REASON_STRINGS = { ... } *)
TRANSACTION_FAILURE_REASON_STRINGS == ObjectLiteral(StringsLiteral)

(* The set of member values. *)
EnumValueSet(e) == {e[i] : i \in DOMAIN e}

(* Own integer keys of an object are listed in ascending numeric order. *)
RECURSIVE Ascending(_)
Ascending(S) ==
    IF S = {} THEN <<>>
    ELSE LET m == CHOOSE x \in S : \A y \in S : x <= y
         IN  <<m>> \o Ascending(S \ {m})

OwnKeys(obj) == Ascending(DOMAIN obj)

(* obj[key]: the property's value, or undefined when obj has no such key;  *)
(* a property read never throws.                                           *)
Get(obj, key) ==
    IF key \in DOMAIN obj
        THEN [type |-> "string", str |-> obj[key]]
        ELSE [type |-> "undefined", str |-> ""]

(* key in obj *)
HasKey(obj, key) == key \in DOMAIN obj

(* obj[key] = value on an object that is neither frozen nor readonly. *)
Put(obj, key, value) ==
    [k \in DOMAIN obj \cup {key} |-> IF k = key THEN value ELSE obj[k]]

(* delete obj[key] *)
Remove(obj, key) == [k \in DOMAIN obj \ {key} |-> obj[k]]

(***************************************************************************)
(* State.  table is the content of the exported object; last[r] is what    *)
(* caller r got from its most recent read.                                 *)
(***************************************************************************)
Readers == 1..NumReaders

(* Numbers a caller passes: members, their neighbours, 0, a negative, the  *)
(* unused range and a value above the sentinel.                            *)
Inputs ==
    {-1, 0, InputUTXOAlreadySpent, StorageDepositReturnUnfulfilled,
     TransactionCapabilityNftDestructionNotAllowed, 27, 254,
     SemanticValidationFailed, 256}

(* Keys and texts a caller writes. *)
WriteKeys == {InputUTXOAlreadySpent, 27}
WriteTexts == {"overwritten"}

NoCall ==
    [op |-> "none", arg |-> 0, type |-> "none", str |-> "",
     bool |-> FALSE, codes |-> <<>>]

DescribeResult(obj, c) ==
    [op |-> "describe", arg |-> c, type |-> Get(obj, c).type,
     str |-> Get(obj, c).str, bool |-> FALSE, codes |-> <<>>]

IsKnownResult(obj, c) ==
    [op |-> "isKnown", arg |-> c, type |-> "boolean", str |-> "",
     bool |-> HasKey(obj, c), codes |-> <<>>]

AllCodesResult(e) ==
    [op |-> "allCodes", arg |-> 0, type |-> "array", str |-> "",
     bool |-> FALSE, codes |-> e]

Init ==
    /\ table = TRANSACTION_FAILURE_REASON_STRINGS
    /\ last = [r \in Readers |-> NoCall]

(* A lookup that stores a default for a key it misses. *)
DescribeCaching(r, c) ==
    /\ last' = [last EXCEPT ![r] = DescribeResult(table, c)]
    /\ table' = IF HasKey(table, c) THEN table ELSE Put(table, c, "")

(* TRANSACTION_FAILURE_REASON_STRINGS[c] *)
Describe(r, c) ==
    /\ last' = [last EXCEPT ![r] = DescribeResult(table, c)]
    /\ UNCHANGED table

(* A membership test that registers the key it was asked about. *)
IsKnownRegistering(r, c) ==
    /\ last' = [last EXCEPT ![r] = IsKnownResult(table, c)]
    /\ table' = IF HasKey(table, c) THEN table ELSE Put(table, c, "")

(* c in TRANSACTION_FAILURE_REASON_STRINGS *)
IsKnown(r, c) ==
    /\ last' = [last EXCEPT ![r] = IsKnownResult(table, c)]
    /\ UNCHANGED table

(* The members of TransactionFailureReason in declaration order. *)
AllCodes(r) ==
    /\ last' = [last EXCEPT ![r] = AllCodesResult(TransactionFailureReason)]
    /\ UNCHANGED table

(* TRANSACTION_FAILURE_REASON_STRINGS[k] = s: the object's type has no     *)
(* readonly modifier and the object is not frozen.                         *)
Assign(k, s) ==
    /\ table' = Put(table, k, s)
    /\ UNCHANGED last

(* delete TRANSACTION_FAILURE_REASON_STRINGS[k] *)
Delete(k) ==
    /\ HasKey(table, k)
    /\ table' = Remove(table, k)
    /\ UNCHANGED last

Read ==
    \/ \E r \in Readers, c \in Inputs : Describe(r, c)
    \/ \E r \in Readers, c \in Inputs : IsKnown(r, c)
    \/ \E r \in Readers : AllCodes(r)

Write ==
    \/ \E k \in WriteKeys, s \in WriteTexts : Assign(k, s)
    \/ \E k \in WriteKeys : Delete(k)

Next == Read \/ Write

(* Every operation a caller can perform on the exports. *)
Spec == Init /\ [][Next]_vars

(* Callers that only read. *)
ReadSpec == Init /\ [][Read]_vars

(***************************************************************************)
(* Properties.                                                             *)
(***************************************************************************)
Enum == TransactionFailureReason
EnumSet == EnumValueSet(TransactionFailureReason)

(* The closed set the catalogue is documented to hold. *)
DeclaredCodes == (1..26) \cup {255}

(* 1, 2, ..., 26, 255 *)
AscendingThenSentinel == [i \in 1..27 |-> IF i = 27 THEN 255 ELSE i]

Described(r) == last[r].op = "describe"
Tested(r) == last[r].op = "isKnown"
Enumerated(r) == last[r].op = "allCodes"

(* C1: the keys of the table are exactly the values of the enum: every     *)
(* member has one description (one property in the literal, a string in    *)
(* the object) and no key of the table is a number that is no member.      *)
C1_MappingTotalAndExact ==
    /\ DOMAIN table = EnumSet
    /\ \A c \in EnumSet : Get(table, c).type = "string"
    /\ \A k \in DOMAIN table : \E i \in DOMAIN Enum : Enum[i] = k
    /\ \A c \in EnumSet :
          Cardinality({i \in DOMAIN StringsLiteral : StringsLiteral[i][1] = c}) = 1

C1_Witness ==
    \E r1, r2 \in Readers :
        /\ Enumerated(r1)
        /\ Described(r2)
        /\ last[r2].arg = last[r1].codes[Len(last[r1].codes)]
        /\ last[r2].type = "string"

(* C2 as stated: a lookup for a number outside the declared set yields an  *)
(* explicit UnknownFailureReason value, never undefined and never an       *)
(* empty or default text.                                                  *)
C2_UnknownLookupIsExplicitError ==
    \A r \in Readers :
        (Described(r) /\ last[r].arg \notin EnumSet)
            => last[r].type = "UnknownFailureReason"

(* C2 amended: on the table as initialised, a lookup for a number outside  *)
(* the declared set yields undefined: it does not throw, and it yields     *)
(* neither an error value nor any text.                                    *)
C2_UnknownLookupIsUndefined ==
    /\ \A r \in Readers :
          (Described(r) /\ last[r].arg \notin EnumSet)
              => (last[r].type = "undefined" /\ last[r].str = "")
    /\ \A c \in Inputs \ EnumSet : Get(table, c).type = "undefined"

C2_Witness ==
    \E r1, r2 \in Readers :
        /\ Described(r1) /\ last[r1].arg = 27 /\ last[r1].type = "undefined"
        /\ Described(r2) /\ last[r2].arg = -1 /\ last[r2].type = "undefined"

(* C3 as stated: whatever callers do with the exported object, its keys    *)
(* and texts stay those of the initial table.                              *)
C3_TableNeverChanges == table = TRANSACTION_FAILURE_REASON_STRINGS

(* C3 amended: no read changes the table: every step in which a caller     *)
(* obtains a result leaves the keys and every text as they were.  (A       *)
(* caller's assignment or delete does change them.)                        *)
C3_ReadsLeaveTableUnchanged == [][last' # last => table' = table]_vars

C3_Witness ==
    \E r1, r2 \in Readers :
        /\ Described(r1) /\ last[r1].arg = InputUTXOAlreadySpent
        /\ last[r1].str = "overwritten"
        /\ Tested(r2) /\ last[r2].arg = 27 /\ last[r2].bool
        /\ table # TRANSACTION_FAILURE_REASON_STRINGS

(* C4: a number is a member of the enum, and a key of the table, exactly   *)
(* when it is one of 1..26 or 255; 0, negatives, 27..254 and numbers above *)
(* 255 are not.                                                            *)
C4_MembershipIsClosedSet ==
    /\ EnumSet = DeclaredCodes
    /\ DOMAIN table = DeclaredCodes
    /\ \A i \in DOMAIN Enum : Enum[i] \in DeclaredCodes
    /\ \A r \in Readers :
          Tested(r) => (last[r].bool <=> last[r].arg \in DeclaredCodes)
    /\ \A c \in {-1, 0, 27, 254, 256} : ~HasKey(table, c) /\ c \notin EnumSet

C4_Witness ==
    \E r1, r2 \in Readers :
        /\ Tested(r1) /\ last[r1].arg = 27 /\ ~last[r1].bool
        /\ Tested(r2) /\ last[r2].arg = SemanticValidationFailed /\ last[r2].bool

(* C5: enumerating the members gives 27 values without repetition, 1..26   *)
(* ascending and then 255; the keys of the table enumerate the same way,   *)
(* and every enumeration gives that same sequence.                         *)
C5_EnumerationOrder ==
    /\ Len(Enum) = 27
    /\ \A i, j \in DOMAIN Enum : i < j => Enum[i] # Enum[j]
    /\ \A i \in 1..26 : Enum[i] = i /\ Enum[i] < Enum[i + 1]
    /\ Enum[27] = 255
    /\ OwnKeys(table) = Enum
    /\ \A r \in Readers : Enumerated(r) => last[r].codes = AscendingThenSentinel

C5_Witness ==
    \E r1, r2 \in Readers :
        /\ r1 # r2
        /\ Enumerated(r1) /\ Enumerated(r2)
        /\ last[r1].codes = last[r2].codes
        /\ Len(last[r1].codes) = 27

(* C6: every member's description is a non-empty string and no two         *)
(* members share a description.                                            *)
C6_DescriptionsDistinctNonEmpty ==
    /\ \A c \in EnumSet : Get(table, c).type = "string" /\ Get(table, c).str # ""
    /\ \A c, d \in EnumSet : c # d => Get(table, c).str # Get(table, d).str
    /\ \A r \in Readers :
          (Described(r) /\ last[r].arg \in EnumSet)
              => (last[r].type = "string" /\ Len(last[r].str) > 0)
    /\ \A r1, r2 \in Readers :
          ( /\ Described(r1) /\ Described(r2)
            /\ last[r1].arg \in EnumSet /\ last[r2].arg \in EnumSet
            /\ last[r1].arg # last[r2].arg )
              => last[r1].str # last[r2].str

C6_Witness ==
    \E r1, r2 \in Readers :
        /\ Described(r1) /\ Described(r2)
        /\ last[r1].arg = TransactionCapabilityNftDestructionNotAllowed
        /\ last[r2].arg = SemanticValidationFailed
        /\ last[r1].str # "" /\ last[r2].str # ""
        /\ last[r1].str # last[r2].str

(* C7: the lookup returns the text as written: the texts of 1, 9 and 255.  *)
C7_CanonicalTexts ==
    LET text(c) ==
          IF c = 1 THEN "The referenced UTXO was already spent."
          ELSE IF c = 9 THEN
              "The return amount in a transaction is not fulfilled by the output side."
          ELSE "The semantic validation failed for a reason not covered by the previous variants."
    IN  /\ \A c \in {1, 9, 255} :
              Get(table, c) = [type |-> "string", str |-> text(c)]
        /\ \A r \in Readers :
              (Described(r) /\ last[r].arg \in {1, 9, 255})
                  => (last[r].type = "string" /\ last[r].str = text(last[r].arg))

C7_Witness ==
    \E r1, r2 \in Readers :
        /\ Described(r1) /\ last[r1].arg = 9
        /\ last[r1].str =
              "The return amount in a transaction is not fulfilled by the output side."
        /\ Described(r2) /\ last[r2].arg = 255 /\ last[r2].type = "string"

(* C8: every enumerated member is a key of the table and its lookup gives  *)
(* a text; a lookup for a key of the table never comes back undefined.     *)
C8_RoundTrip ==
    /\ \A i \in DOMAIN Enum :
          HasKey(table, Enum[i]) /\ Get(table, Enum[i]).type = "string"
    /\ \A r \in Readers :
          Enumerated(r) =>
              \A i \in DOMAIN last[r].codes :
                  /\ IsKnownResult(table, last[r].codes[i]).bool
                  /\ DescribeResult(table, last[r].codes[i]).type = "string"
    /\ \A r \in Readers :
          (Described(r) /\ HasKey(table, last[r].arg)) => last[r].type = "string"
    /\ \A r \in Readers :
          (Tested(r) /\ last[r].arg \in EnumSet) => last[r].bool

C8_Witness ==
    \E r1, r2 \in Readers :
        /\ Enumerated(r1)
        /\ Tested(r2)
        /\ last[r2].arg = last[r1].codes[26]
        /\ last[r2].bool

(* C9 as stated: 26 numbers have a description, the sentinel 255 among     *)
(* them, and the enumeration has 26 elements.                              *)
C9_TwentySixCodes ==
    /\ Cardinality({c \in DOMAIN table : Get(table, c).type = "string"}) = 26
    /\ Len(Enum) = 26

(* C9 amended: 27 numbers have a description, the 26 members 1..26 and     *)
(* the sentinel 255, and the enumeration lists all 27 of them.             *)
C9_TwentySevenCodes ==
    /\ Cardinality({c \in DOMAIN table : Get(table, c).type = "string"}) = 27
    /\ HasKey(table, SemanticValidationFailed)
    /\ Cardinality(EnumSet) = 27
    /\ Len(Enum) = 27
    /\ \A r \in Readers :
          Enumerated(r) =>
              /\ Len(last[r].codes) = 27
              /\ {last[r].codes[i] : i \in DOMAIN last[r].codes} = DOMAIN table

C9_Witness ==
    \E r \in Readers :
        /\ Enumerated(r)
        /\ Len(last[r].codes) = 27
        /\ last[r].codes[27] = SemanticValidationFailed

(* C10: with several callers reading in any interleaving, every call       *)
(* returns what it returns when it is the only call made on the initial    *)
(* table, and every call can be made in every state (none waits).          *)
C10_ReadersIndependent ==
    /\ \A r \in Readers :
          /\ Described(r) =>
                last[r] = DescribeResult(TRANSACTION_FAILURE_REASON_STRINGS, last[r].arg)
          /\ Tested(r) =>
                last[r] = IsKnownResult(TRANSACTION_FAILURE_REASON_STRINGS, last[r].arg)
          /\ Enumerated(r) => last[r] = AllCodesResult(TransactionFailureReason)
    /\ \A r \in Readers :
          /\ ENABLED AllCodes(r)
          /\ \A c \in Inputs : ENABLED Describe(r, c) /\ ENABLED IsKnown(r, c)

C10_Witness ==
    \E r1, r2 \in Readers :
        /\ r1 # r2
        /\ Tested(r1) /\ last[r1].arg = 27 /\ ~last[r1].bool
        /\ Described(r2) /\ last[r2].arg = 27 /\ last[r2].type = "undefined"

=============================================================================
